---------------------------- MODULE Spec2Model ----------------------------
(***************************************************************************)
(* A model of the ssq-predictor host component (src/src/App.tsx) and of    *)
(* the prediction engine it invokes through Tauri (analyze_frequency,      *)
(* generate_predictions, load_and_update_data).                            *)
(*                                                                         *)
(* The host is a React function component.  Its state is the seven         *)
(* useState cells and the hasLoadedData ref.  Every handler runs           *)
(* synchronously up to its first await; what follows the await runs when   *)
(* the backend call settles, in the same microtask chain, so one action    *)
(* models the handler up to the await and one action models each way the   *)
(* awaited call can settle together with everything the handler does       *)
(* afterwards.  Calls that have been issued and have not settled are kept  *)
(* in `pending`; they settle in any order.                                 *)
(***************************************************************************)
EXTENDS Integers, Sequences, FiniteSets, Bags, TLC

VARIABLES
    loading,          \* App.tsx:7
    records,          \* App.tsx:8
    algorithm,        \* App.tsx:9
    redFrequencies,   \* App.tsx:10
    blueFrequencies,  \* App.tsx:11
    predictions,      \* App.tsx:12
    error,            \* App.tsx:13
    hasLoadedData,    \* App.tsx:19  (hasLoadedData.current)
    pending,          \* invoke() calls issued and not yet settled
    effectRuns,       \* how often the mount effect body has run
    mountLoads,       \* how often the mount effect has called loadData
    last,             \* history: the step taken last
    lastAnalysis,     \* history: outcome of the analyze_frequency call settled last
    recent,           \* what the last getRecentRecords() call returned
    recentCalls,      \* how often getRecentRecords() has been called
    genIn,            \* engine run: the arguments of generate_predictions
    genOut            \* engine run: what generate_predictions returned

vars == <<loading, records, algorithm, redFrequencies, blueFrequencies,
          predictions, error, hasLoadedData, pending, effectRuns, mountLoads,
          last, lastAnalysis, recent, recentCalls, genIn, genOut>>

hostVars == <<loading, records, algorithm, redFrequencies, blueFrequencies,
              predictions, error, hasLoadedData, pending, effectRuns,
              mountLoads, last, lastAnalysis>>

(***************************************************************************)
(* Bounds of the model.                                                    *)
(***************************************************************************)
MaxPending == 2

MaxEffectRuns == 2

MaxRecords == 11

MaxRecentCalls == 2

MaxSeed == 3

---------------------------------------------------------------------------
(***************************************************************************)
(* Data model (types.ts).                                                  *)
(***************************************************************************)
AlgorithmType == {"hot", "cold"}

SsqRecord(issue, reds, blue) ==
    [issue |-> issue, red_balls |-> reds, blue_ball |-> blue]

BallFrequency(n, f, w) == [number |-> n, frequency |-> f, weight |-> w]

PredictionResult(reds, blue, score) ==
    [red_balls |-> reds, blue_ball |-> blue, score |-> score]


---------------------------------------------------------------------------
(***************************************************************************)
(* The engine.  Its code is the Tauri backend, which is not among the      *)
(* sources; it is modelled from the specification (sections 3, 4, 7).      *)
(***************************************************************************)
RedPool == 33

BluePool == 16

RedCount == 6

TopN == 10

\* Section 4.2: trailing window and bonus of the "hot" recency term.
RecencyWindow == 1

RecencyBonus == 2

\* Section 4.3: the attempt cap of the generator.
MaxAttempts == 24

Max(a, b) == IF a >= b THEN a ELSE b

Min(a, b) == IF a <= b THEN a ELSE b

Range(s) == {s[i] : i \in DOMAIN s}

RECURSIVE SumOver(_, _)
SumOver(f, S) ==
    IF S = {} THEN 0
    ELSE LET x == CHOOSE y \in S : TRUE IN f[x] + SumOver(f, S \ {x})

\* Section 3: within one record the primary numbers are 6 distinct values
\* of 1..33 and the secondary number is one of 1..16.
ValidRecord(r) ==
    /\ Len(r.red_balls) = RedCount
    /\ \A i \in 1..RedCount : r.red_balls[i] \in 1..RedPool
    /\ Cardinality(Range(r.red_balls)) = RedCount
    /\ r.blue_ball \in 1..BluePool

\* Sections 4.1, 7: what the engine rejects: "" when the call is accepted,
\* otherwise the error it aborts with.
EngineError(recs, algo) ==
    IF recs = <<>> \/ \E i \in DOMAIN recs : ~ValidRecord(recs[i])
    THEN "InputError"
    ELSE IF algo \notin AlgorithmType THEN "ConfigurationError"
    ELSE ""

\* Section 4.1: the number of records of recs[from..] a number appears in.
RedCountOf(recs, from, n) ==
    Cardinality({i \in from..Len(recs) : n \in Range(recs[i].red_balls)})

BlueCountOf(recs, from, n) ==
    Cardinality({i \in from..Len(recs) : recs[i].blue_ball = n})

\* Section 4.2: the weight of a number of frequency f, of which `late` fall
\* in the trailing window, in a pool whose largest frequency is maxF.
Weight(algo, f, late, maxF) ==
    IF algo = "hot" THEN f + 1 + RecencyBonus * late
    ELSE maxF - f + 1

\* Sections 3, 4.1: one entry per number of the pool, ascending, numbers
\* that never occur included.  freq and late map each number to its count
\* in all the records and in the trailing window.
FrequencyTable(algo, size, freq, late) ==
    LET maxF == CHOOSE m \in {freq[n] : n \in 1..size} :
                    \A n \in 1..size : freq[n] <= m
    IN  [n \in 1..size |->
            BallFrequency(n, freq[n], Weight(algo, freq[n], late[n], maxF))]

\* Section 6: analyze_frequency(records, algorithm), for a call the engine
\* accepts: the primary and the secondary table.
analyze_frequency(recs, algo) ==
    LET from == Max(1, Len(recs) - RecencyWindow + 1)
    IN  <<FrequencyTable(algo, RedPool,
                         [n \in 1..RedPool |-> RedCountOf(recs, 1, n)],
                         [n \in 1..RedPool |-> RedCountOf(recs, from, n)]),
          FrequencyTable(algo, BluePool,
                         [n \in 1..BluePool |-> BlueCountOf(recs, 1, n)],
                         [n \in 1..BluePool |-> BlueCountOf(recs, from, n)])>>

(***************************************************************************)
(* Section 5: the generator draws from an injectable random source.  A     *)
(* source is a linear congruential stream [a, c, m, x]: x is the next      *)
(* value drawn, (a * x + c) % m the one after it.                          *)
(***************************************************************************)
Advance(src) == [src EXCEPT !.x = (src.a * src.x + src.c) % src.m]

MinOf(S) == CHOOSE n \in S : \A k \in S : n <= k

\* Section 9: cumulative-weight selection among the numbers of avail.
RECURSIVE CumulativePick(_, _, _)
CumulativePick(w, avail, target) ==
    LET n == MinOf(avail)
    IN  IF target < w[n] \/ avail = {n} THEN n
        ELSE CumulativePick(w, avail \ {n}, target - w[n])

WeightedSample(w, avail, src) ==
    CumulativePick(w, avail, src.x % SumOver(w, avail))

\* Section 4.3: weighted sampling without replacement until 6 numbers are
\* drawn.
RECURSIVE DrawReds(_, _, _)
DrawReds(w, chosen, src) ==
    IF Cardinality(chosen) = RedCount THEN [balls |-> chosen, src |-> src]
    ELSE LET n == WeightedSample(w, (1..RedPool) \ chosen, src)
         IN  DrawReds(w, chosen \cup {n}, Advance(src))

RECURSIVE SortAscending(_)
SortAscending(S) ==
    IF S = {} THEN <<>>
    ELSE <<MinOf(S)>> \o SortAscending(S \ {MinOf(S)})

\* Section 4.3: the score of a candidate, the sum of its seven weights.
Score(wr, wb, balls, blue) == SumOver(wr, balls) + wb[blue]

\* One candidate and the source after drawing it.
DrawCandidate(wr, wb, src) ==
    LET reds == DrawReds(wr, {}, src)
        blue == WeightedSample(wb, 1..BluePool, reds.src)
    IN  [candidate |-> PredictionResult(SortAscending(reds.balls), blue,
                                        Score(wr, wb, reds.balls, blue)),
         src |-> Advance(reds.src)]

\* Section 4.3, deduplication: a candidate collides with one already kept
\* when their primary-number sets are the same.
IsDuplicateOfLatest(found, cand) ==
    found # <<>> /\ found[Len(found)].red_balls = cand.red_balls

IsDuplicate(found, cand) ==
    \E i \in DOMAIN found : found[i].red_balls = cand.red_balls

\* Section 4.3: regenerate on collision, up to the attempt cap.
RECURSIVE Generate(_, _, _, _, _)
Generate(wr, wb, src, found, attempts) ==
    IF Len(found) = TopN \/ attempts = MaxAttempts THEN found
    ELSE LET d == DrawCandidate(wr, wb, src)
         IN  Generate(wr, wb, d.src,
                      IF IsDuplicate(found, d.candidate) THEN found
                      ELSE Append(found, d.candidate),
                      attempts + 1)

\* Section 4.3, ranking: descending score, then ascending first primary
\* number, then ascending secondary number.
RanksBefore(p, q) ==
    \/ p.score > q.score
    \/ /\ p.score = q.score
       /\ \/ p.red_balls[1] < q.red_balls[1]
          \/ /\ p.red_balls[1] = q.red_balls[1]
             /\ p.blue_ball < q.blue_ball

RECURSIVE InsertRanked(_, _)
InsertRanked(ranked, p) ==
    IF ranked = <<>> THEN <<p>>
    ELSE IF RanksBefore(p, Head(ranked)) THEN <<p>> \o ranked
    ELSE <<Head(ranked)>> \o InsertRanked(Tail(ranked), p)

RECURSIVE Rank(_)
Rank(found) ==
    IF found = <<>> THEN <<>>
    ELSE InsertRanked(Rank(SubSeq(found, 1, Len(found) - 1)),
                      found[Len(found)])

\* Section 6: generate_predictions(records, algorithm), for a call the
\* engine accepts, drawing from src.
generate_predictions(recs, algo, src) ==
    LET t == analyze_frequency(recs, algo)
        wr == [n \in 1..RedPool |-> t[1][n].weight]
        wb == [n \in 1..BluePool |-> t[2][n].weight]
        ranked == Rank(Generate(wr, wb, src, <<>>, 0))
    IN  SubSeq(ranked, 1, Min(TopN, Len(ranked)))

---------------------------------------------------------------------------
(***************************************************************************)
(* What load_and_update_data can return: the record lists of the model,    *)
(* the empty list among them.                                              *)
(***************************************************************************)
Draw1 == SsqRecord("2024001", <<1, 5, 9, 14, 22, 33>>, 7)

Draw2 == SsqRecord("2024002", <<2, 5, 11, 14, 27, 33>>, 12)

DataSets == {<<>>, <<Draw1>>, <<Draw1, Draw2>>}

\* The random sources of the model: streams of period 64, 12 and 3.
Sources ==
    {[a |-> 5, c |-> 3, m |-> 64, x |-> x] : x \in 0..MaxSeed}
    \cup {[a |-> 1, c |-> 5, m |-> 12, x |-> x] : x \in 0..MaxSeed}
    \cup {[a |-> 1, c |-> 4, m |-> 12, x |-> x] : x \in 0..MaxSeed}


\* What a backend call can reject with besides the engine's own errors.  The
\* catch blocks only format the value; the model keeps the value that says
\* least, the one whose text is empty.
BackendErrors == {""}

\* The results the engine returns, per accepted call of the model.
AnalysisOf ==
    [d \in DataSets \ {<<>>}, a \in AlgorithmType |-> analyze_frequency(d, a)]

PredictionsOf ==
    [d \in DataSets \ {<<>>}, a \in AlgorithmType, s \in Sources |->
        generate_predictions(d, a, s)]

---------------------------------------------------------------------------
(***************************************************************************)
(* The host: src/src/App.tsx.                                              *)
(***************************************************************************)
\* invoke(cmd, {records, algorithm}) issued by handler `origin`.  For
\* load_and_update_data, which takes no argument, records is <<>> and
\* algorithm is the algorithm loadData's closure holds (App.tsx:27).
Call(cmd, recs, algo, origin) ==
    [cmd |-> cmd, records |-> recs, algorithm |-> algo, origin |-> origin]

\* pending is a bag: the same call can be in flight more than once.
Issue(bag, call) == bag (+) SetToBag({call})

Retire(bag, call) == bag (-) SetToBag({call})

InFlight == BagToSet(pending)

Step(op) == [op |-> op, cmd |-> "", origin |-> "", ok |-> TRUE]

Settled(call, ok) ==
    [op |-> "settle", cmd |-> call.cmd, origin |-> call.origin, ok |-> ok]

\* The messages of the catch blocks (App.tsx:29, 45, 64) and of the guard
\* of generatePredictions (App.tsx:52), in English.
LoadFailedMessage(err) == "load failed: " \o err

AnalyzeFailedMessageBare(err) == err

AnalyzeFailedMessage(err) == "analysis failed: " \o err

PredictFailedMessage(err) == "prediction failed: " \o err

NoDataMessage == "load the data first"

\* App.tsx:21-25: loadData up to its await.
loadData ==
    /\ loading' = TRUE
    /\ error' = ""
    /\ pending' = Issue(pending, Call("load_and_update_data", <<>>,
                                      algorithm, "loadData"))
    /\ UNCHANGED <<records, algorithm, redFrequencies, blueFrequencies,
                   predictions>>

\* App.tsx:36-41: analyzeFrequency(data, algo) up to its await, called by
\* handler `origin` with the calls of `bag` in flight.
analyzeFrequency(data, algo, origin, bag) ==
    pending' = Issue(bag, Call("analyze_frequency", data, algo, origin))

\* App.tsx:31-33: the finally block of loadData, reached when the
\* analyzeFrequency it awaits has returned.
loadDataFinallySkipped(origin) == UNCHANGED loading

loadDataFinally(origin) ==
    IF origin = "loadData" THEN loading' = FALSE ELSE UNCHANGED loading

\* App.tsx:82-84: whether the mount effect returns early.
EffectGuardDropped == FALSE

EffectGuard == hasLoadedData

\* App.tsx:80-87: one run of the mount effect's body.  The dependency list
\* is empty, so the body runs when the component mounts, and again right
\* away when StrictMode repeats the mount: before any event or response.
useEffect ==
    /\ effectRuns < MaxEffectRuns
    /\ last.op \in {"render", "useEffect"}
    /\ effectRuns' = effectRuns + 1
    /\ last' = Step("useEffect")
    /\ UNCHANGED <<lastAnalysis, recent, recentCalls, genIn, genOut>>
    /\ IF EffectGuard
       THEN UNCHANGED <<loading, records, algorithm, redFrequencies,
                        blueFrequencies, predictions, error, hasLoadedData,
                        pending, mountLoads>>
       ELSE /\ hasLoadedData' = TRUE
            /\ mountLoads' = mountLoads + 1
            /\ loadData

\* App.tsx:252-254: a click on the refresh button, enabled unless loading.
RefreshClick ==
    /\ effectRuns > 0
    /\ ~loading
    /\ BagCardinality(pending) < MaxPending
    /\ loadData
    /\ last' = Step("loadData")
    /\ UNCHANGED <<hasLoadedData, effectRuns, mountLoads, lastAnalysis, recent, recentCalls, genIn, genOut>>

\* App.tsx:74: what handleAlgorithmChange leaves in predictions.
KeepPredictions == predictions

ClearedPredictions == <<>>

\* App.tsx:72-73: the algorithm handleAlgorithmChange hands on.
PreviousAlgorithm(algo) == algorithm

SelectedAlgorithm(algo) == algo

\* App.tsx:71-78 and 261-265: the select, enabled unless loading, changes
\* to option algo.
handleAlgorithmChange(algo) ==
    /\ effectRuns > 0
    /\ ~loading
    /\ algo # algorithm
    /\ BagCardinality(pending) < MaxPending
    /\ algorithm' = algo
    /\ predictions' = ClearedPredictions
    /\ IF Len(records) > 0
       THEN analyzeFrequency(records, SelectedAlgorithm(algo),
                             "handleAlgorithmChange", pending)
       ELSE UNCHANGED pending
    /\ last' = Step("handleAlgorithmChange")
    /\ UNCHANGED <<loading, records, redFrequencies, blueFrequencies, error,
                   hasLoadedData, effectRuns, mountLoads, lastAnalysis, recent, recentCalls, genIn, genOut>>

\* App.tsx:50-61 and 272-274: a click on the predict button, enabled
\* unless loading or without records; generatePredictions up to its await.
\* The button being disabled without records, the handler's own test of
\* records.length (App.tsx:51-54) never finds them empty.
generatePredictions ==
    /\ effectRuns > 0
    /\ ~loading
    /\ Len(records) # 0
    /\ BagCardinality(pending) < MaxPending
    /\ IF Len(records) = 0
       THEN /\ error' = NoDataMessage
            /\ UNCHANGED <<loading, pending>>
       ELSE /\ loading' = TRUE
            /\ error' = ""
            /\ pending' = Issue(pending, Call("generate_predictions", records,
                                              algorithm, "generatePredictions"))
    /\ last' = Step("generatePredictions")
    /\ UNCHANGED <<records, algorithm, redFrequencies, blueFrequencies,
                   predictions, hasLoadedData, effectRuns, mountLoads,
                   lastAnalysis, recent, recentCalls, genIn, genOut>>

\* App.tsx:25-27: load_and_update_data resolves with data.
LoadResolved(c, data) ==
    /\ c.cmd = "load_and_update_data"
    /\ records' = data
    /\ analyzeFrequency(data, c.algorithm, "loadData", Retire(pending, c))
    /\ last' = Settled(c, TRUE)
    /\ UNCHANGED <<loading, algorithm, redFrequencies, blueFrequencies,
                   predictions, error, hasLoadedData, effectRuns, mountLoads,
                   lastAnalysis, recent, recentCalls, genIn, genOut>>

\* App.tsx:28-33: load_and_update_data rejects with err.
LoadRejected(c, err) ==
    /\ c.cmd = "load_and_update_data"
    /\ error' = LoadFailedMessage(err)
    /\ loading' = FALSE
    /\ pending' = Retire(pending, c)
    /\ last' = Settled(c, FALSE)
    /\ UNCHANGED <<records, algorithm, redFrequencies, blueFrequencies,
                   predictions, hasLoadedData, effectRuns, mountLoads,
                   lastAnalysis, recent, recentCalls, genIn, genOut>>

\* App.tsx:42-43, then 31-33 in loadData: analyze_frequency resolves.
AnalyzeResolved(c) ==
    /\ c.cmd = "analyze_frequency"
    /\ EngineError(c.records, c.algorithm) = ""
    /\ redFrequencies' = AnalysisOf[c.records, c.algorithm][1]
    /\ blueFrequencies' = AnalysisOf[c.records, c.algorithm][2]
    /\ loadDataFinally(c.origin)
    /\ pending' = Retire(pending, c)
    /\ last' = Settled(c, TRUE)
    /\ lastAnalysis' = "ok"
    /\ UNCHANGED <<records, algorithm, predictions, error, hasLoadedData,
                   effectRuns, mountLoads, recent, recentCalls, genIn, genOut>>

\* A catch block that also resets the tables.
AnalyzeRejectedClearing(c, err) ==
    /\ c.cmd = "analyze_frequency"
    /\ LET fault == EngineError(c.records, c.algorithm)
       IN  IF fault = "" THEN err \in BackendErrors ELSE err = fault
    /\ error' = AnalyzeFailedMessage(err)
    /\ redFrequencies' = <<>>
    /\ blueFrequencies' = <<>>
    /\ loadDataFinally(c.origin)
    /\ pending' = Retire(pending, c)
    /\ last' = Settled(c, FALSE)
    /\ lastAnalysis' = "failed"
    /\ UNCHANGED <<records, algorithm, predictions, hasLoadedData, effectRuns,
                   mountLoads, recent, recentCalls, genIn, genOut>>

\* App.tsx:44-47, then 31-33 in loadData: analyze_frequency rejects.
AnalyzeRejected(c, err) ==
    /\ c.cmd = "analyze_frequency"
    /\ LET fault == EngineError(c.records, c.algorithm)
       IN  IF fault = "" THEN err \in BackendErrors ELSE err = fault
    /\ error' = AnalyzeFailedMessage(err)
    /\ loadDataFinally(c.origin)
    /\ pending' = Retire(pending, c)
    /\ last' = Settled(c, FALSE)
    /\ lastAnalysis' = "failed"
    /\ UNCHANGED <<records, algorithm, redFrequencies, blueFrequencies,
                   predictions, hasLoadedData, effectRuns, mountLoads, recent,
                   recentCalls, genIn, genOut>>

\* App.tsx:62, 66-68: generate_predictions resolves, having drawn from src.
GenerateResolved(c, src) ==
    /\ c.cmd = "generate_predictions"
    /\ EngineError(c.records, c.algorithm) = ""
    /\ predictions' = PredictionsOf[c.records, c.algorithm, src]
    /\ loading' = FALSE
    /\ pending' = Retire(pending, c)
    /\ last' = Settled(c, TRUE)
    /\ UNCHANGED <<records, algorithm, redFrequencies, blueFrequencies, error,
                   hasLoadedData, effectRuns, mountLoads, lastAnalysis, recent, recentCalls, genIn, genOut>>

\* App.tsx:63-68: generate_predictions rejects.
GenerateRejected(c, err) ==
    /\ c.cmd = "generate_predictions"
    /\ LET fault == EngineError(c.records, c.algorithm)
       IN  IF fault = "" THEN err \in BackendErrors ELSE err = fault
    /\ error' = PredictFailedMessage(err)
    /\ loading' = FALSE
    /\ pending' = Retire(pending, c)
    /\ last' = Settled(c, FALSE)
    /\ UNCHANGED <<records, algorithm, redFrequencies, blueFrequencies,
                   predictions, hasLoadedData, effectRuns, mountLoads,
                   lastAnalysis, recent, recentCalls, genIn, genOut>>

\* The source the host's generate_predictions calls draw from.
HostSources == {s \in Sources : s.x = 0 /\ s.m = 64}

AllErrors == BackendErrors \cup {"InputError", "ConfigurationError"}

\* A call in flight settles, one way or the other.
Settle ==
    \E c \in InFlight :
        \/ \E data \in DataSets : LoadResolved(c, data)
        \/ \E err \in BackendErrors : LoadRejected(c, err)
        \/ AnalyzeResolved(c)
        \/ \E err \in AllErrors : AnalyzeRejected(c, err)
        \/ \E src \in HostSources : GenerateResolved(c, src)
        \/ \E err \in AllErrors : GenerateRejected(c, err)

\* App.tsx:243-245 and Array.prototype: slice(start) copies the elements
\* from start on (counted from the end when negative) into a new array;
\* reverse() reverses its receiver in place and returns it.
RecentCount == 10

ArraySlice(arr, start) ==
    LET k == IF start < 0 THEN Max(Len(arr) + start, 0)
             ELSE Min(start, Len(arr))
    IN  SubSeq(arr, k + 1, Len(arr))

ArrayReverse(arr) == [i \in 1..Len(arr) |-> arr[Len(arr) - i + 1]]

\* records.reverse().slice(0, 10): the receiver of reverse() is the state.
getRecentRecordsInPlace(recs) ==
    LET turned == ArrayReverse(recs)
    IN  [returned |-> SubSeq(turned, 1, Min(RecentCount, Len(turned))),
         records |-> turned]

\* App.tsx:243-245: what getRecentRecords returns and what it leaves in
\* the array the records state refers to; the receiver of reverse() is the
\* copy slice() made.
getRecentRecords(recs) ==
    LET copy == ArraySlice(recs, 0 - RecentCount)
    IN  [returned |-> ArrayReverse(copy), records |-> recs]

\* App.tsx:299: a render calls getRecentRecords.
Render ==
    /\ recentCalls < MaxRecentCalls
    /\ recent' = getRecentRecords(records).returned
    /\ records' = getRecentRecords(records).records
    /\ recentCalls' = recentCalls + 1
    /\ UNCHANGED <<loading, algorithm, redFrequencies, blueFrequencies,
                   predictions, error, hasLoadedData, pending, effectRuns,
                   mountLoads, last, lastAnalysis, genIn, genOut>>

\* The engine runs generate_predictions on genIn.
RunGenerate ==
    /\ genOut.state = "idle"
    /\ LET fault == EngineError(genIn.records, genIn.algorithm)
       IN  genOut' =
             IF fault = ""
             THEN [state |-> "returned", error |-> "",
                   value |-> generate_predictions(genIn.records,
                                                  genIn.algorithm,
                                                  genIn.source)]
             ELSE [state |-> "aborted", error |-> fault, value |-> <<>>]
    /\ UNCHANGED <<hostVars, recent, recentCalls, genIn>>

\* App.tsx:7-19: the state after the first render.
HostInit ==
    /\ loading = FALSE
    /\ algorithm = "hot"
    /\ redFrequencies = <<>>
    /\ blueFrequencies = <<>>
    /\ predictions = <<>>
    /\ error = ""
    /\ hasLoadedData = FALSE
    /\ pending = EmptyBag
    /\ effectRuns = 0
    /\ mountLoads = 0
    /\ last = Step("render")
    /\ lastAnalysis = "none"
    /\ recent = <<>>
    /\ recentCalls = 0
    /\ genOut = [state |-> "idle", error |-> "", value |-> <<>>]

Init ==
    /\ HostInit
    /\ records = <<>>
    /\ genIn = [records |-> <<>>, algorithm |-> "hot",
                source |-> CHOOSE s \in HostSources : TRUE]

Next ==
    \/ useEffect
    \/ RefreshClick
    \/ \E algo \in AlgorithmType : handleAlgorithmChange(algo)
    \/ generatePredictions
    \/ \E c \in InFlight : \E data \in DataSets : LoadResolved(c, data)
    \/ \E c \in InFlight : \E err \in BackendErrors : LoadRejected(c, err)
    \/ \E c \in InFlight : AnalyzeResolved(c)
    \/ \E c \in InFlight : \E err \in AllErrors : AnalyzeRejected(c, err)
    \/ \E c \in InFlight : \E src \in HostSources : GenerateResolved(c, src)
    \/ \E c \in InFlight : \E err \in AllErrors : GenerateRejected(c, err)

Spec == Init /\ [][Next]_vars

\* The backend settles every call it is sent.
SpecLive == Spec /\ WF_vars(Settle)


(***************************************************************************)
(* The engine alone: generate_predictions on every record list of up to    *)
(* two draws, either algorithm and every source of the model.              *)
(***************************************************************************)
Draw3 == SsqRecord("2024003", <<3, 9, 14, 20, 27, 31>>, 7)

EngineRecords ==
    {<<>>} \cup {<<d>> : d \in {Draw1, Draw2, Draw3}}
           \cup {<<d, e>> : d \in {Draw1, Draw2, Draw3}, e \in {Draw2, Draw3}}

InitEngine ==
    /\ HostInit
    /\ records = <<>>
    /\ genIn \in [records : EngineRecords, algorithm : AlgorithmType,
                  source : Sources]

SpecEngine == InitEngine /\ [][RunGenerate]_vars

(***************************************************************************)
(* getRecentRecords alone: the records state holds any list of up to       *)
(* MaxRecords draws, in ascending order of issue.                          *)
(***************************************************************************)
RecordOfIssue(k) ==
    SsqRecord(ToString(2024000 + k), Draw1.red_balls, (k % BluePool) + 1)

RECURSIVE RecordsOfIssues(_)
RecordsOfIssues(S) ==
    IF S = {} THEN <<>>
    ELSE <<RecordOfIssue(MinOf(S))>> \o RecordsOfIssues(S \ {MinOf(S)})

InitRecent ==
    /\ HostInit
    /\ records \in {RecordsOfIssues(S) : S \in SUBSET (1..MaxRecords)}
    /\ genIn = [records |-> <<>>, algorithm |-> "hot",
                source |-> CHOOSE s \in HostSources : TRUE]

SpecRecent == InitRecent /\ [][Render]_vars


---------------------------------------------------------------------------
(***************************************************************************)
(* The claims.                                                             *)
(***************************************************************************)
AnalysesInFlight == {c \in InFlight : c.cmd = "analyze_frequency"}

\* C1: a step of handleAlgorithmChange with records loaded issues exactly
\* one call, analyze_frequency with the loaded records and the algorithm
\* just selected; with no records loaded it issues none.
C1_AlgorithmChangeReanalyses ==
    [][last'.op = "handleAlgorithmChange" =>
         /\ algorithm' # algorithm
         /\ records' = records
         /\ IF Len(records) > 0
            THEN pending' = pending (+) SetToBag({
                     [cmd |-> "analyze_frequency", records |-> records,
                      algorithm |-> algorithm',
                      origin |-> "handleAlgorithmChange"]})
            ELSE pending' = pending]_vars

\* The select has gone to "cold" with records loaded, and the analysis of
\* those records under "cold" is in flight.
C1_Witness ==
    /\ last.op = "handleAlgorithmChange"
    /\ algorithm = "cold"
    /\ Len(records) > 0
    /\ \E c \in AnalysesInFlight :
          c.algorithm = "cold" /\ c.records = records

\* C2: when a call has rejected and the handler that awaited it has run to
\* its end, error is a non-empty message, whichever of the three commands
\* it was and whichever handler made it.
C2_FailureIsShown ==
    (last.op = "settle" /\ ~last.ok) =>
        /\ error # ""
        /\ last.cmd = "load_and_update_data" =>
              \E e \in AllErrors : error = LoadFailedMessage(e)
        /\ last.cmd = "analyze_frequency" =>
              \E e \in AllErrors : error = "analysis failed: " \o e
        /\ last.cmd = "generate_predictions" =>
              \E e \in AllErrors : error = PredictFailedMessage(e)

\* analyze_frequency has rejected inside loadData, which has finished.
C2_Witness ==
    /\ last = [op |-> "settle", cmd |-> "analyze_frequency",
               origin |-> "loadData", ok |-> FALSE]
    /\ error = "analysis failed: "
    /\ Len(records) > 0

\* C3: a step in which analyze_frequency rejects leaves redFrequencies and
\* blueFrequencies as they were; a step in which generate_predictions
\* rejects leaves predictions as it was.
C3_AbortLeavesNoOutput ==
    [][(last'.op = "settle" /\ ~last'.ok) =>
         /\ last'.cmd = "analyze_frequency" =>
               /\ redFrequencies' = redFrequencies
               /\ blueFrequencies' = blueFrequencies
         /\ last'.cmd = "generate_predictions" =>
               predictions' = predictions]_vars

\* analyze_frequency has rejected while tables of an earlier analysis were
\* on display, and they still are.
C3_Witness ==
    /\ last.op = "settle"
    /\ last.cmd = "analyze_frequency"
    /\ ~last.ok
    /\ Len(redFrequencies) = RedPool
    /\ Len(blueFrequencies) = BluePool

\* C4: in what generate_predictions returns, every candidate has 6 distinct
\* primary numbers of 1..33 in ascending order and a secondary number of
\* 1..16, and no two candidates have the same primary numbers.
C4_CandidatesWellFormedAndDistinct ==
    genOut.state = "returned" =>
        LET out == genOut.value
        IN  /\ \A i \in DOMAIN out :
                  /\ Len(out[i].red_balls) = 6
                  /\ \A k \in 1..6 : out[i].red_balls[k] \in 1..33
                  /\ \A k \in 1..5 :
                        out[i].red_balls[k] < out[i].red_balls[k + 1]
                  /\ out[i].blue_ball \in 1..16
            /\ \A i, j \in DOMAIN out :
                  i # j => Range(out[i].red_balls) # Range(out[j].red_balls)

\* A run in which collisions were dropped until the attempt cap: more than
\* one candidate returned, fewer than ten.
C4_Witness ==
    /\ genOut.state = "returned"
    /\ Len(genOut.value) > 1
    /\ Len(genOut.value) < TopN

\* C5: when no analyze_frequency call is in flight and the one settled last
\* resolved, the tables on display are the analysis of the loaded records
\* under the selected algorithm.
C5_DisplayedAnalysisIsCurrent ==
    (AnalysesInFlight = {} /\ lastAnalysis = "ok") =>
        /\ EngineError(records, algorithm) = ""
        /\ redFrequencies = AnalysisOf[records, algorithm][1]
        /\ blueFrequencies = AnalysisOf[records, algorithm][2]

\* C6: predictions, when not empty, is what some generate_predictions call
\* with the selected algorithm returned.
C6_PredictionsMatchAlgorithm ==
    predictions # <<>> =>
        \E d \in DataSets \ {<<>>} : \E s \in HostSources :
            predictions = PredictionsOf[d, algorithm, s]

\* Predictions generated after the select went to "cold".
C6_Witness ==
    /\ predictions # <<>>
    /\ algorithm = "cold"
    /\ last.cmd = "generate_predictions"

\* C7: every analyze_frequency and generate_predictions call the host has
\* issued carries a non-empty record list.
C7_EngineCallsCarryRecords ==
    \A c \in InFlight :
        c.cmd \in {"analyze_frequency", "generate_predictions"} =>
            Len(c.records) > 0

\* A loadData or generatePredictions has not finished.
OperationInFlight ==
    \E c \in InFlight : c.origin \in {"loadData", "generatePredictions"}

\* C8: loading is true only while a loadData or a generatePredictions is in
\* flight, and, the backend settling what it is sent, whenever loading is
\* true it becomes false again.
C8_LoadingIsReleased ==
    /\ [](loading => OperationInFlight)
    /\ loading ~> ~loading

\* loadData has finished on a failed analysis and the controls are enabled.
C8_Witness ==
    /\ ~loading
    /\ last.op = "settle"
    /\ last.origin = "loadData"
    /\ last.cmd = "analyze_frequency"
    /\ ~last.ok
    /\ ~OperationInFlight

\* C9: however often the mount effect has run, it has called loadData at
\* most once, and exactly once when it has run at all; until something
\* else happens exactly one load_and_update_data call is in flight.
C9_MountLoadsOnce ==
    /\ mountLoads <= 1
    /\ effectRuns >= 1 => mountLoads = 1 /\ hasLoadedData
    /\ last.op = "useEffect" =>
          BagCardinality(pending) = 1
          /\ \A c \in InFlight : c.cmd = "load_and_update_data"

\* The effect body has run more than once.
C9_Witness ==
    /\ effectRuns >= 2
    /\ mountLoads = 1
    /\ BagCardinality(pending) = 1

\* C10: what getRecentRecords returned holds the last min(10, n) of the n
\* records, newest first, so that it starts with records[n]; and no call
\* changes records.
C10_RecentIsReversedTail ==
    /\ [](recentCalls > 0 =>
            LET n == Len(records)
            IN  /\ Len(recent) = Min(10, n)
                /\ \A k \in 1..Len(recent) : recent[k] = records[n - k + 1])
    /\ [][records' = records]_vars

\* getRecentRecords has been called twice on more than ten records.
C10_Witness ==
    /\ recentCalls >= 2
    /\ Len(records) > 10
    /\ Len(recent) = 10
    /\ recent[1] = records[Len(records)]

============================================================================
